---------------------------- MODULE Spec2Model ----------------------------
(***************************************************************************)
(* A model of src/src/email_backup_server.py: the EmailBackupHandler that  *)
(* the SMTP engine (aiosmtpd) calls once per offered recipient             *)
(* (handle_RCPT) and once per completed message (handle_DATA), and the     *)
(* Maildir it stores accepted messages in.                                 *)
(*                                                                         *)
(* Text is modelled as a sequence of pieces.  A piece is a one-character   *)
(* string ("@", ":", " ", "A", "a", ...) or a run of characters that holds *)
(* no delimiter and no letter whose case matters ("x-backup-to").          *)
(* An optional value (Python's None or a value) is a sequence of length 0  *)
(* or 1.  The bytes of a message are a sequence of lines, each line ending *)
(* in its terminator piece, CRLF as SMTP delivers it or LF.                *)
(***************************************************************************)
EXTENDS Integers, Sequences, FiniteSets, TLC

\* ------------------------------------------------------------------ bounds

\* An envelope collects at most MaxRcpts accepted recipients.
MaxRcpts == 1

\* The clock read by Maildir._create_tmp and datetime.now() shows 0..MaxClock.
MaxClock == 1

\* Maildir.add is called at most MaxAdds times.
MaxAdds == 2

\* The policy runs offer at most MaxOffers recipients.
MaxOffers == 3

\* ------------------------------------------------------------------- text

\* str.lower() on one piece.
LowerPiece(p) ==
    CASE p = "A" -> "a"
      [] p = "B" -> "b"
      [] p = "H" -> "h"
      [] p = "X" -> "x"
      [] p = "T" -> "t"
      [] p = "X-Backup-Received" -> "x-backup-received"
      [] p = "X-Backup-From" -> "x-backup-from"
      [] p = "X-Backup-To" -> "x-backup-to"
      [] OTHER -> p

\* str.lower()
Lower(s) == [i \in 1..Len(s) |-> LowerPiece(s[i])]

IsSpace(p) == p = " "

\* str.lstrip() and str.strip(): whitespace removed at the ends only.
RECURSIVE LStrip(_)
LStrip(s) == IF s # <<>> /\ IsSpace(Head(s)) THEN LStrip(Tail(s)) ELSE s

RECURSIVE RStrip(_)
RStrip(s) ==
    IF s # <<>> /\ IsSpace(s[Len(s)]) THEN RStrip(SubSeq(s, 1, Len(s) - 1)) ELSE s

Strip(s) == RStrip(LStrip(s))

\* The index of the last sep among s[1..i], 0 when there is none.
RECURSIVE LastIndexOf(_, _, _)
LastIndexOf(s, sep, i) ==
    IF i = 0 THEN 0
    ELSE IF s[i] = sep THEN i
    ELSE LastIndexOf(s, sep, i - 1)

\* s.split(sep)[-1]: the part after the last separator, and the whole of s
\* when it holds none.
SplitLast(s, sep) == SubSeq(s, LastIndexOf(s, sep, Len(s)) + 1, Len(s))

\* s.split(sep, 1): the parts before and after the first separator.
RECURSIVE IndexOf(_, _, _)
IndexOf(s, sep, i) ==
    IF i > Len(s) THEN 0
    ELSE IF s[i] = sep THEN i
    ELSE IndexOf(s, sep, i + 1)

Contains(s, sep) == IndexOf(s, sep, 1) # 0

SplitFirst(s, sep) ==
    LET i == IndexOf(s, sep, 1)
    IN  <<SubSeq(s, 1, i - 1), SubSeq(s, i + 1, Len(s))>>

\* sep.join(parts)
RECURSIVE Join(_, _)
Join(sep, parts) ==
    IF parts = <<>> THEN <<>>
    ELSE IF Len(parts) = 1 THEN parts[1]
    ELSE parts[1] \o sep \o Join(sep, Tail(parts))

\* Python's None and a present value.
None == <<>>
Some(v) == <<v>>

\* Truthiness of an optional string: None and "" are both false.
Truthy(opt) == opt # <<>> /\ opt[1] # <<>>

\* ---------------------------------------------------------- configuration

\* The constructor's arguments: allowed_recipient is None or an address,
\* allowed_sender_domains is None or a list of domains, required_headers is
\* None or a list of "Name:value" entries.
RawConfig(ar, asd, spf, rh) ==
    [allowed_recipient |-> ar, allowed_sender_domains |-> asd,
     require_spf_pass |-> spf, required_headers |-> rh]

\* An optional list is true when it is a list that is not empty.
TruthyList(opt) == opt # <<>> /\ opt[1] # <<>>

AllowedRecipientOf(ar) == IF Truthy(ar) THEN Some(Lower(ar[1])) ELSE None

AllowedSenderDomainsOf(asd) ==
    IF TruthyList(asd) THEN [i \in 1..Len(asd[1]) |-> Lower(asd[1][i])] ELSE <<>>

\* The dict built by splitting each entry on its last colon.
RECURSIVE RequiredHeadersFrom_LastColon(_)
RequiredHeadersFrom_LastColon(entries) ==
    IF entries = <<>> THEN <<>>
    ELSE LET before == RequiredHeadersFrom_LastColon(SubSeq(entries, 1, Len(entries) - 1))
             header_pair == entries[Len(entries)]
         IN  IF Contains(header_pair, ":")
             THEN LET i == LastIndexOf(header_pair, ":", Len(header_pair))
                      header == Lower(Strip(SubSeq(header_pair, 1, i - 1)))
                      value == Lower(Strip(SubSeq(header_pair, i + 1, Len(header_pair))))
                  IN  [h \in DOMAIN before \cup {header} |->
                          IF h = header THEN value ELSE before[h]]
             ELSE before

\* The dict {header_name: expected_value}, a function on the names: an entry
\* with no colon is skipped, a later entry replaces an earlier one of the
\* same name.
RECURSIVE RequiredHeadersFrom(_)
RequiredHeadersFrom(entries) ==
    IF entries = <<>> THEN <<>>
    ELSE LET before == RequiredHeadersFrom(SubSeq(entries, 1, Len(entries) - 1))
             header_pair == entries[Len(entries)]
         IN  IF Contains(header_pair, ":")
             THEN LET parts == SplitFirst(header_pair, ":")
                      header == Lower(Strip(parts[1]))
                      value == Lower(Strip(parts[2]))
                  IN  [h \in DOMAIN before \cup {header} |->
                          IF h = header THEN value ELSE before[h]]
             ELSE before

RequiredHeadersOf(rh) ==
    IF TruthyList(rh) THEN RequiredHeadersFrom(rh[1]) ELSE <<>>

\* EmailBackupHandler.__init__: the handler's policy fields.
Construct(raw) ==
    [allowed_recipient |-> AllowedRecipientOf(raw.allowed_recipient),
     allowed_sender_domains |-> AllowedSenderDomainsOf(raw.allowed_sender_domains),
     require_spf_pass |-> raw.require_spf_pass,
     required_headers |-> RequiredHeadersOf(raw.required_headers)]

\* ---------------------------------------------------------------- messages

\* The line terminators: "\r\n" and "\n".
CRLF == "CRLF"
LF == "LF"
EOL == {CRLF, LF}

\* value.rstrip('\r\n') of the header parse.
RStripEOL(s) == IF s # <<>> /\ s[Len(s)] \in EOL THEN SubSeq(s, 1, Len(s) - 1) ELSE s

\* A line that holds its terminator only.
IsBlankLine(line) == RStripEOL(line) = <<>>

\* The line as the generator writes it: its terminator becomes os.linesep.
WithLinesep(line) == RStripEOL(line) \o <<LF>>

\* email.message_from_bytes: the leading lines that hold a colon are the
\* headers, each split on its first colon with the blanks after the colon
\* and the line terminator dropped; a blank line after them is the
\* separator; the rest, terminators kept, is the body.
RECURSIVE HeaderCount(_)
HeaderCount(lines) ==
    IF lines # <<>> /\ Contains(Head(lines), ":")
    THEN 1 + HeaderCount(Tail(lines))
    ELSE 0

ParseHeaderLine(line) ==
    LET parts == SplitFirst(line, ":") IN <<parts[1], RStripEOL(LStrip(parts[2]))>>

message_from_bytes(content) ==
    LET n == HeaderCount(content)
        rest == SubSeq(content, n + 1, Len(content))
    IN  [headers |-> [i \in 1..n |-> ParseHeaderLine(content[i])],
         body |-> IF rest # <<>> /\ IsBlankLine(Head(rest)) THEN Tail(rest) ELSE rest]

\* A lookup that gives the value of the last header of that name.
RECURSIVE MsgGet_Last(_, _, _)
MsgGet_Last(headers, name, failobj) ==
    IF headers = <<>> THEN failobj
    ELSE IF Lower(headers[Len(headers)][1]) = Lower(name)
    THEN headers[Len(headers)][2]
    ELSE MsgGet_Last(SubSeq(headers, 1, Len(headers) - 1), name, failobj)

\* Message.get(name, failobj): the value of the first header whose name
\* equals name ignoring case, failobj when there is none.
RECURSIVE MsgGet(_, _, _)
MsgGet(headers, name, failobj) ==
    IF headers = <<>> THEN failobj
    ELSE IF Lower(Head(headers)[1]) = Lower(name) THEN Head(headers)[2]
    ELSE MsgGet(Tail(headers), name, failobj)

\* msg[name] = value: appends a header, whatever headers the message has.
MsgSet(msg, name, value) ==
    [msg EXCEPT !.headers = Append(@, <<name, value>>)]

\* The bytes Maildir._dump_message writes: "Name: value" per header, a
\* blank line, the body, every line ended by os.linesep.
as_bytes(msg) ==
    [i \in 1..Len(msg.headers) |->
        msg.headers[i][1] \o <<":", " ">> \o msg.headers[i][2] \o <<LF>>]
    \o << <<LF>> >>
    \o [i \in 1..Len(msg.body) |-> WithLinesep(msg.body[i])]

\* ------------------------------------------------------------------ policy

\* A status string, "<code> <text><detail>".
Status(code, text) == [code |-> code, text |-> text, detail |-> ""]
StatusWith(code, text, detail) == [code |-> code, text |-> text, detail |-> detail]

\* What spf.check2 can do: return one of SpfResults, or raise.
SpfResults == {"pass", "fail", "softfail", "neutral", "none", "permerror", "temperror"}
Raises == "raise"
SpfOutcomes == SpfResults \cup {Raises}

\* An envelope as the engine hands it over: content is None until DATA.
Envelope(mail_from, rcpt_tos, content) ==
    [mail_from |-> mail_from, rcpt_tos |-> rcpt_tos, content |-> content]

\* handle_RCPT comparing the address as offered, its case kept.
handle_RCPT_CaseKept(config, env, address) ==
    IF Truthy(config.allowed_recipient)
       /\ address # config.allowed_recipient[1]
    THEN [envelope |-> env, status |-> Status(550, "Recipient not accepted")]
    ELSE [envelope |-> [env EXCEPT !.rcpt_tos = Append(@, address)],
          status |-> Status(250, "OK")]

\* handle_RCPT appending the address in lower case.
handle_RCPT_AppendsLower(config, env, address) ==
    IF Truthy(config.allowed_recipient)
       /\ Lower(address) # config.allowed_recipient[1]
    THEN [envelope |-> env, status |-> Status(550, "Recipient not accepted")]
    ELSE [envelope |-> [env EXCEPT !.rcpt_tos = Append(@, Lower(address))],
          status |-> Status(250, "OK")]

\* handle_RCPT appending the address before it checks it.
handle_RCPT_AppendsFirst(config, env, address) ==
    [envelope |-> [env EXCEPT !.rcpt_tos = Append(@, address)],
     status |-> IF Truthy(config.allowed_recipient)
                   /\ Lower(address) # config.allowed_recipient[1]
                THEN Status(550, "Recipient not accepted")
                ELSE Status(250, "OK")]

\* handle_RCPT: the envelope afterwards and the status returned.
handle_RCPT(config, env, address) ==
    IF Truthy(config.allowed_recipient)
       /\ Lower(address) # config.allowed_recipient[1]
    THEN [envelope |-> env, status |-> Status(550, "Recipient not accepted")]
    ELSE [envelope |-> [env EXCEPT !.rcpt_tos = Append(@, address)],
          status |-> Status(250, "OK")]

\* _validate_sender_domain taking the part after the first "@".
validate_sender_domain_FirstAt(config, env) ==
    IF config.allowed_sender_domains = <<>> THEN None
    ELSE LET sender_domain == Lower(SplitFirst(env.mail_from, "@")[2])
             listed == \E i \in 1..Len(config.allowed_sender_domains) :
                           config.allowed_sender_domains[i] = sender_domain
         IN  IF ~listed
             THEN Some(Status(550, "Sender domain not authorized"))
             ELSE None

\* _validate_sender_domain rejecting a sender that holds no "@".
validate_sender_domain_NeedsAt(config, env) ==
    IF config.allowed_sender_domains = <<>> THEN None
    ELSE LET sender_domain == Lower(SplitLast(env.mail_from, "@"))
             listed == \E i \in 1..Len(config.allowed_sender_domains) :
                           config.allowed_sender_domains[i] = sender_domain
         IN  IF ~Contains(env.mail_from, "@") \/ ~listed
             THEN Some(Status(550, "Sender domain not authorized"))
             ELSE None

\* _validate_sender_domain: None, or the status to return.
validate_sender_domain(config, env) ==
    IF config.allowed_sender_domains = <<>> THEN None
    ELSE LET sender_domain == Lower(SplitLast(env.mail_from, "@"))
             listed == \E i \in 1..Len(config.allowed_sender_domains) :
                           config.allowed_sender_domains[i] = sender_domain
         IN  IF ~listed
             THEN Some(Status(550, "Sender domain not authorized"))
             ELSE None

\* _validate_spf returns before the verifier is called when the flag is off.
spf_called(config) == config.require_spf_pass

\* _validate_spf letting only "pass" through.
spf_verdict_OnlyPass(outcome) ==
    IF outcome = Raises THEN Some(Status(451, "SPF validation error"))
    ELSE IF outcome # "pass"
    THEN Some(StatusWith(550, "SPF validation failed: ", outcome))
    ELSE None

\* _validate_spf answering the result `temperror` with the transient status.
spf_verdict_TempErrorIs451(outcome) ==
    IF outcome \in {Raises, "temperror"} THEN Some(Status(451, "SPF validation error"))
    ELSE IF outcome \notin {"pass", "none"}
    THEN Some(StatusWith(550, "SPF validation failed: ", outcome))
    ELSE None

\* _validate_spf letting the message through when the verifier raises.
spf_verdict_RaisePasses(outcome) ==
    IF outcome # Raises /\ outcome \notin {"pass", "none"}
    THEN Some(StatusWith(550, "SPF validation failed: ", outcome))
    ELSE None

\* _validate_spf from the call of spf.check2 on.
spf_verdict(outcome) ==
    IF outcome = Raises THEN Some(Status(451, "SPF validation error"))
    ELSE IF outcome \notin {"pass", "none"}
    THEN Some(StatusWith(550, "SPF validation failed: ", outcome))
    ELSE None

\* _validate_spf, given what the verifier does when it is called.
validate_spf(config, outcome) ==
    IF ~spf_called(config) THEN None ELSE spf_verdict(outcome)

\* _validate_required_headers demanding that a required header is present.
validate_required_headers_NeedsPresent(config, msg) ==
    IF DOMAIN config.required_headers = {} THEN None
    ELSE IF \E required_header \in DOMAIN config.required_headers :
                \/ \A i \in 1..Len(msg.headers) :
                       Lower(msg.headers[i][1]) # Lower(required_header)
                \/ Lower(MsgGet(msg.headers, required_header, <<>>))
                       # config.required_headers[required_header]
    THEN Some(Status(550, "Message rejected"))
    ELSE None

\* _validate_required_headers
validate_required_headers(config, msg) ==
    IF DOMAIN config.required_headers = {} THEN None
    ELSE IF \E required_header \in DOMAIN config.required_headers :
                Lower(MsgGet(msg.headers, required_header, <<>>))
                    # config.required_headers[required_header]
    THEN Some(Status(550, "Message rejected"))
    ELSE None

\* An error that is not returned.
Rejects_Never(error) == FALSE

\* `if error: return error`
Rejects(error) == error # None

\* datetime.now().isoformat() at clock reading t.
isoformat(t) == <<"2026-11-01T07", ":", "58", ":", ToString(t)>>

\* The three provenance headers handle_DATA sets on the parsed message.
Stamp(msg, t, env) ==
    MsgSet(MsgSet(MsgSet(msg, <<"X-Backup-Received">>, isoformat(t)),
                  <<"X-Backup-From">>, env.mail_from),
           <<"X-Backup-To">>, Join(<<",", " ">>, env.rcpt_tos))

Accepted == Status(250, "Message accepted for delivery")

\* ----------------------------------------------------------------- Maildir

\* The unique name Maildir._create_tmp builds from the clock and the
\* process-wide Maildir._count (the pid and the host name are fixed).
Uniq(t, n) == <<t, n>>

\* A counter that is not advanced.
NextCount_Same(n) == n

\* Maildir._count += 1
NextCount(n) == n + 1

File(name, data) == [name |-> name, data |-> data]

Names(dir) == {f.name : f \in dir}

\* A link that does not happen.
LinkInto_Lost(dir, f) == dir

\* os.link(tmp, dest) then os.remove(tmp): the file appears in the directory.
LinkInto(dir, f) == dir \cup {f}

\* ------------------------------------------------------------------- state

\* The connections the engine serves, one task each on one event loop.
Conns == {"c1", "c2"}

Idle == "idle"

VARIABLES
    args,       \* the arguments the handler was constructed with
    cfg,        \* the handler's policy fields, fixed by __init__
    now,        \* the clock
    envelope,   \* envelope[c]: the envelope of connection c's transaction
    pc,         \* pc[c]: where connection c's transaction stands
    loop,       \* the connection whose handler the event loop is running
    frame,      \* the locals of the handle_DATA call that is running
    new,        \* the files of the Maildir's new/ directory
    tmp,        \* the files of the Maildir's tmp/ directory
    count,      \* Maildir._count
    alive,      \* the server process is running
    last,       \* the last handle_DATA call that ended: what it ran and gave
    adds,       \* history: the calls of Maildir.add
    faults,     \* history: the filesystem errors met by Maildir.add
    offers,     \* history: the recipient checks on c1's envelope
    probe,      \* the last policy check applied on its own
    attempt     \* history: the data check on which the verifier last raised

vars == <<args, cfg, now, envelope, pc, loop, frame, new, tmp, count, alive, last,
          adds, faults, offers, probe, attempt>>

NoEnvelope == Envelope(<<>>, <<>>, None)

\* parsed: the Message as message_from_bytes returned it and the header
\* check saw it; msg: the same object as it is now.
NoFrame ==
    [trace |-> <<>>, outcome |-> "", parsed |-> None, msg |-> None,
     tmp_file |-> None, new0 |-> {}]

NoLast ==
    [op |-> "", status |-> None, raised |-> FALSE, trace |-> <<>>]

NoProbe == [fn |-> "", arg |-> <<>>, called |-> FALSE, out |-> None]

\* ------------------------------------------------------------------ inputs

\* The configurations, senders, recipients and messages of the server runs.
StrictConfig ==
    RawConfig(Some(<<"b", "@", "x">>), Some(<< <<"H">> >>), TRUE,
              Some(<< <<"X", ":", "T">> >>))

NoSpfConfig == [StrictConfig EXCEPT !.require_spf_pass = FALSE]

Configs == {StrictConfig, NoSpfConfig}

\* What the verifier does in the server runs.
Outcomes == {"pass", "none", "softfail", Raises}

Senders == {<<"j", "@", "h">>, <<"j", "@", "z">>}

Addresses == {<<"B", "@", "x">>, <<"a", "@", "x">>}

Contents ==
    { << <<"X-Backup-From", ":", " ", "q", CRLF>>, <<"X", ":", " ", "t", CRLF>>,
         <<CRLF>>, <<"hello", CRLF>> >>,
      << <<CRLF>>, <<"hello", CRLF>> >> }

InitWith(configs) ==
    /\ args \in configs
    /\ cfg = Construct(args)
    /\ now = 0
    /\ envelope = [c \in Conns |-> NoEnvelope]
    /\ pc = [c \in Conns |-> "closed"]
    /\ loop = Idle
    /\ frame = NoFrame
    /\ new = {}
    /\ tmp = {}
    /\ count = 0
    /\ alive = TRUE
    /\ last = NoLast
    /\ adds = 0
    /\ faults = 0
    /\ offers = <<>>
    /\ probe = NoProbe
    /\ attempt = None

Init == InitWith(Configs)

\* ----------------------------------------------------------------- actions

\* A handle_DATA call ends: the engine gets `status`, or the exception when
\* the call raised.
Ended(op, status, raised, trace) ==
    [op |-> op, status |-> status, raised |-> raised, trace |-> trace]

\* handle_DATA returns or raises: the loop is free again and the engine
\* ends the transaction and resets its envelope.
EndData(c, status, raised, trace) ==
    /\ last' = Ended("DATA", status, raised, trace)
    /\ loop' = Idle
    /\ frame' = NoFrame
    /\ pc' = [pc EXCEPT ![c] = "closed"]
    /\ envelope' = [envelope EXCEPT ![c] = NoEnvelope]

\* The engine accepts MAIL FROM on connection c and opens an envelope.
MAIL(c, sender) ==
    /\ alive /\ loop = Idle /\ pc[c] = "closed"
    /\ envelope' = [envelope EXCEPT ![c] = Envelope(sender, <<>>, None)]
    /\ pc' = [pc EXCEPT ![c] = "rcpt"]
    /\ UNCHANGED <<args, cfg, now, loop, frame, new, tmp, count, alive, last,
                   adds, faults, offers, probe, attempt>>

\* The engine calls handle_RCPT, which runs to its end without awaiting.
RcptCall(c, address) ==
    /\ alive /\ loop = Idle /\ pc[c] = "rcpt"
    /\ LET r == handle_RCPT(cfg, envelope[c], address)
       IN  /\ envelope' = [envelope EXCEPT ![c] = r.envelope]
    /\ UNCHANGED <<args, cfg, now, pc, loop, frame, new, tmp, count, alive, last,
                   adds, faults, probe, attempt>>

RCPT(c, address) ==
    /\ Len(envelope[c].rcpt_tos) < MaxRcpts
    /\ RcptCall(c, address)
    /\ UNCHANGED offers

\* handle_DATA from the parsing of the message on: the header check, and
\* for a message that passes the provenance headers, up to the call of
\* Maildir.add.  The local `msg` is one Message object: the three
\* assignments of lines 125-127 change it in place, so frame.msg, the
\* object the call holds and hands to the store, is the stamped one;
\* frame.parsed keeps what the header check was given.
ParseAndCheck(c, env, outcome, trace) ==
    LET msg == message_from_bytes(env.content[1])
        error == validate_required_headers(cfg, msg)
        checked == trace \o <<"parse", "required_headers">>
    IN  IF Rejects(error)
        THEN EndData(c, error, FALSE, checked)
        ELSE /\ pc' = [pc EXCEPT ![c] = "add"]
             /\ frame' = [frame EXCEPT
                             !.new0 = IF loop = c THEN @ ELSE new,
                             !.outcome = outcome,
                             !.parsed = Some(msg),
                             !.msg = Some(Stamp(msg, now, env)),
                             !.trace = checked \o <<"stamp", "add">>]
             /\ envelope' = [envelope EXCEPT ![c] = env]
             /\ loop' = c
             /\ UNCHANGED last

\* The engine, which takes DATA only for an envelope with a recipient, sets
\* envelope.content and calls handle_DATA: the sender-domain
\* check, then _validate_spf up to the call of spf.check2.  handle_DATA holds
\* no await: the loop runs nothing else until it returns.
DATA(c, content) ==
    /\ alive /\ loop = Idle /\ pc[c] = "rcpt"
    /\ envelope[c].rcpt_tos # <<>>
    /\ count < MaxAdds
    /\ LET env == [envelope[c] EXCEPT !.content = Some(content)]
           error == validate_sender_domain(cfg, env)
       IN  IF Rejects(error)
           THEN EndData(c, error, FALSE, <<"sender_domain">>)
           ELSE IF spf_called(cfg)
           THEN /\ envelope' = [envelope EXCEPT ![c] = env]
                /\ loop' = c
                /\ pc' = [pc EXCEPT ![c] = "spf_call"]
                /\ frame' = [NoFrame EXCEPT
                                !.new0 = new,
                                !.trace = <<"sender_domain", "spf", "check2">>]
                /\ UNCHANGED last
           ELSE ParseAndCheck(c, env, "", <<"sender_domain", "spf">>)
    /\ UNCHANGED <<args, cfg, now, new, tmp, count, alive, adds, faults, offers, probe,
                   attempt>>

\* spf.check2 returns or raises, _validate_spf ends and handle_DATA goes on.
SpfReturnCall(c, outcome) ==
    /\ alive /\ loop = c /\ pc[c] = "spf_call"
    /\ LET error == spf_verdict(outcome)
       IN  IF Rejects(error)
           THEN EndData(c, error, FALSE, frame.trace)
           ELSE ParseAndCheck(c, envelope[c], outcome, frame.trace)
    /\ UNCHANGED <<args, cfg, now, new, tmp, count, alive, adds, faults, offers, probe>>

SpfReturn(c, outcome) ==
    /\ SpfReturnCall(c, outcome)
    /\ UNCHANGED attempt

\* Maildir._create_tmp: a new empty file in tmp/ under a unique name; a name
\* that exists there already is a clash, and add raises.
AddCreateTmp(c) ==
    /\ alive /\ loop = c /\ pc[c] = "add"
    /\ adds' = adds + 1
    /\ LET uniq == Uniq(now, count)
       IN  IF uniq \in Names(tmp)
           THEN /\ EndData(c, None, TRUE, frame.trace)
                /\ UNCHANGED <<tmp, count>>
           ELSE /\ count' = NextCount(count)
                /\ tmp' = tmp \cup {File(uniq, <<>>)}
                /\ frame' = [frame EXCEPT !.tmp_file = Some(uniq)]
                /\ pc' = [pc EXCEPT ![c] = "dump"]
                /\ UNCHANGED <<envelope, loop, last>>
    /\ UNCHANGED <<args, cfg, now, new, alive, faults, offers, probe, attempt>>

TmpFile == CHOOSE f \in tmp : f.name = frame.tmp_file[1]

\* Maildir._dump_message: the bytes reach the file in two writes.
AddDump(c) ==
    /\ alive /\ loop = c /\ pc[c] = "dump"
    /\ LET data == as_bytes(frame.msg[1])
       IN  tmp' = (tmp \ {TmpFile})
                      \cup {File(TmpFile.name, SubSeq(data, 1, Len(data) \div 2))}
    /\ pc' = [pc EXCEPT ![c] = "sync"]
    /\ UNCHANGED <<args, cfg, now, envelope, loop, frame, new, count, alive, last,
                   adds, faults, offers, probe, attempt>>

AddSync(c) ==
    /\ alive /\ loop = c /\ pc[c] = "sync"
    /\ tmp' = (tmp \ {TmpFile}) \cup {File(TmpFile.name, as_bytes(frame.msg[1]))}
    /\ pc' = [pc EXCEPT ![c] = "link"]
    /\ UNCHANGED <<args, cfg, now, envelope, loop, frame, new, count, alive, last,
                   adds, faults, offers, probe, attempt>>

\* The file is linked into new/ and removed from tmp/, add returns and
\* handle_DATA returns its 250; a name that exists in new/ is a clash: the
\* file is removed from tmp/ and add raises.
AddLink(c) ==
    /\ alive /\ loop = c /\ pc[c] = "link"
    /\ tmp' = tmp \ {TmpFile}
    /\ IF TmpFile.name \in Names(new)
       THEN /\ EndData(c, None, TRUE, frame.trace)
            /\ UNCHANGED new
       ELSE /\ new' = LinkInto(new, TmpFile)
            /\ EndData(c, Some(Accepted), FALSE, frame.trace)
    /\ UNCHANGED <<args, cfg, now, count, alive, adds, faults, offers, probe, attempt>>

\* A filesystem error inside Maildir.add (creating, writing or linking the
\* file): add removes its tmp/ file and raises OSError; handle_DATA has no
\* handler for it, so the exception leaves handle_DATA.
AddFault(c) ==
    /\ alive /\ loop = c /\ pc[c] \in {"add", "dump", "sync", "link"}
    /\ IF pc[c] = "add"
       THEN /\ count' = NextCount(count)
            /\ adds' = adds + 1
            /\ UNCHANGED tmp
       ELSE /\ tmp' = tmp \ {TmpFile}
            /\ UNCHANGED <<count, adds>>
    /\ faults' = faults + 1
    /\ EndData(c, None, TRUE, frame.trace)
    /\ UNCHANGED <<args, cfg, now, new, alive, offers, probe, attempt>>

\* The clock advances: between handler calls and while a call waits for the
\* verifier.  From the stamping of the message to the end of Maildir.add a
\* call reads one clock value.
Tick ==
    /\ alive /\ now < MaxClock
    /\ IF loop = Idle THEN TRUE ELSE pc[loop] = "spf_call"
    /\ now' = now + 1
    /\ UNCHANGED <<args, cfg, envelope, pc, loop, frame, new, tmp, count, alive,
                   last, adds, faults, offers, probe, attempt>>

\* The server process is killed while Maildir.add has its file in tmp/ (a
\* kill at any other point leaves both directories as they are).
Crash ==
    /\ alive /\ tmp # {}
    /\ alive' = FALSE
    /\ UNCHANGED <<args, cfg, now, envelope, pc, loop, frame, new, tmp, count, last,
                   adds, faults, offers, probe, attempt>>

Next ==
    \/ \E c \in Conns, sender \in Senders : MAIL(c, sender)
    \/ \E c \in Conns, address \in Addresses : RCPT(c, address)
    \/ \E c \in Conns, content \in Contents : DATA(c, content)
    \/ \E c \in Conns, outcome \in Outcomes : SpfReturn(c, outcome)
    \/ \E c \in Conns : AddCreateTmp(c)
    \/ \E c \in Conns : AddDump(c)
    \/ \E c \in Conns : AddSync(c)
    \/ \E c \in Conns : AddLink(c)
    \/ \E c \in Conns : AddFault(c)
    \/ Tick
    \/ Crash

Spec == Init /\ [][Next]_vars

\* ------------------------------------------------------------ policy runs

\* The policy checks applied on their own, over more configurations and
\* inputs than the server runs take.
PolicyRecipients == {None, Some(<<>>), Some(<<"B", "@", "x">>)}

PolicyDomains ==
    {None, Some(<<>>), Some(<< <<"H">> >>), Some(<< <<"h">>, <<"Z", ".", "h">> >>),
     Some(<< <<>> >>)}

PolicyHeaders ==
    { None,
      Some(<< <<"X", ":", "T">> >>),
      Some(<< <<"x", ":", " ", "t">>, <<"A", ":", "b">> >>),
      Some(<< <<"X">>, <<"A", ":", "t", ":", "b">> >>),
      Some(<< <<"X", ":">> >>) }

PolicyConfigs ==
    {RawConfig(ar, asd, spf, rh) :
        ar \in PolicyRecipients, asd \in PolicyDomains,
        spf \in BOOLEAN, rh \in PolicyHeaders}

PolicySender == <<"j", "@", "h">>

ProbeAddresses ==
    {<<"b", "@", "x">>, <<"B", "@", "X">>, <<"a", "@", "x">>,
     <<"b", "@", "x", ".", "x">>}

ProbeSenders ==
    {<<"j", "@", "h">>, <<"j", "@", "H">>, <<"j", "@", "z", ".", "h">>,
     <<"J", "@", "Z", ".", "h">>, <<"h", "@", "j">>, <<"j", "@", "z", "@", "h">>,
     <<"j", "@", "h", "@", "z">>, <<"h">>, <<"j", "@">>, <<>>}

ProbeContents ==
    { << <<"X", ":", " ", "T", CRLF>>, <<CRLF>>, <<"hello", CRLF>> >>,
      << <<"x", ":", "t", CRLF>>, <<"A", ":", " ", "B", CRLF>>, <<CRLF>>,
         <<"hello", CRLF>> >>,
      << <<"X", ":", " ", "b", CRLF>>, <<"X", ":", " ", "t", CRLF>>, <<CRLF>>,
         <<"hello", CRLF>> >>,
      << <<"X", ":", " ", "t", CRLF>>, <<"X", ":", " ", "b", CRLF>>, <<CRLF>>,
         <<"hello", CRLF>> >>,
      << <<"A", ":", " ", "t", ":", "b", CRLF>>, <<"X", ":", CRLF>>, <<CRLF>>,
         <<"hello", CRLF>> >>,
      << <<"X", ":", " ", "b", CRLF>>, <<"A", ":", " ", "T", ":", "b", CRLF>>,
         <<CRLF>>, <<"hello", CRLF>> >>,
      << <<"A", ":", " ", "b", CRLF>>, <<CRLF>>, <<"hello", CRLF>> >>,
      << <<CRLF>>, <<"hello", CRLF>> >> }

InitPolicy == InitWith(PolicyConfigs)

\* handle_RCPT on c1's envelope, the offer and its status noted.
PolicyRCPT(address) ==
    /\ Len(offers) < MaxOffers
    /\ RcptCall("c1", address)
    /\ offers' = Append(offers,
                        [address |-> address,
                         status |-> handle_RCPT(cfg, envelope["c1"], address).status])

\* A check applied on its own, before the transaction of the run begins.
Probe(fn, arg, called, out) ==
    /\ pc["c1"] = "closed"
    /\ probe' = [fn |-> fn, arg |-> arg, called |-> called, out |-> out]
    /\ UNCHANGED <<args, cfg, now, envelope, pc, loop, frame, new, tmp, count,
                   alive, last, adds, faults, offers, attempt>>

ProbeSenderDomain(sender) ==
    Probe("sender_domain", sender, FALSE,
          validate_sender_domain(cfg, Envelope(sender, <<>>, None)))

ProbeSpf(outcome) ==
    Probe("spf", <<outcome>>, spf_called(cfg), validate_spf(cfg, outcome))

ProbeHeaders(content) ==
    Probe("required_headers", content, FALSE,
          validate_required_headers(cfg, message_from_bytes(content)))

PolicyMAIL == probe = NoProbe /\ MAIL("c1", PolicySender)

NextPolicy ==
    \/ PolicyMAIL
    \/ \E address \in ProbeAddresses : PolicyRCPT(address)
    \/ \E sender \in ProbeSenders : ProbeSenderDomain(sender)
    \/ \E outcome \in SpfOutcomes : ProbeSpf(outcome)
    \/ \E content \in ProbeContents : ProbeHeaders(content)

SpecPolicy == InitPolicy /\ [][NextPolicy]_vars

\* -------------------------------------------------------------- retry runs

\* One remote party on one connection that submits messages and submits them
\* again, under the configuration that calls the verifier.  Its messages
\* pass or fail the header check.
RetryConn == "c1"

RetryContents ==
    Contents \cup
        { << <<"X", ":", " ", "T", CRLF>>, <<CRLF>>, <<"bye", CRLF>> >> }

InitRetry == InitWith({StrictConfig})

\* spf.check2 returns or raises; a data check on which it raised is noted
\* with the store as it then was.
RetrySpfReturn(outcome) ==
    /\ SpfReturnCall(RetryConn, outcome)
    /\ attempt' = IF outcome = Raises
                  THEN Some([envelope |-> envelope[RetryConn], new |-> new])
                  ELSE attempt

NextRetry ==
    \/ \E sender \in Senders : MAIL(RetryConn, sender)
    \/ \E address \in Addresses : RCPT(RetryConn, address)
    \/ \E content \in RetryContents : DATA(RetryConn, content)
    \/ \E outcome \in Outcomes : RetrySpfReturn(outcome)
    \/ AddCreateTmp(RetryConn)
    \/ AddDump(RetryConn)
    \/ AddSync(RetryConn)
    \/ AddLink(RetryConn)
    \/ AddFault(RetryConn)
    \/ Tick

SpecRetry == InitRetry /\ [][NextRetry]_vars

\* ------------------------------------------------------------------ claims

\* In this step connection c's handle_DATA call ends (returns or raises).
DataEnds(c) == pc[c] # "closed" /\ pc'[c] = "closed"

\* The files of new/ when c's running handle_DATA call began.
StoreAtCall(c) == IF loop = c THEN frame.new0 ELSE new

Code(status) == IF status = None THEN 0 ELSE status[1].code

\* C1: the store changes only inside a data check that returns 250.  A step
\* that changes new/ is the return of a data check with 250; a data check
\* that returns 550 or 451 ends with new/ as it was when the check began; one
\* that returns 250 ends with exactly one file more.
C1_StoreChangesOnlyOnAccept ==
    [][ /\ new' # new =>
              \E c \in Conns :
                  DataEnds(c) /\ ~last'.raised /\ Code(last'.status) = 250
        /\ \A c \in Conns :
              DataEnds(c) /\ ~last'.raised =>
                  /\ Code(last'.status) \in {250, 550, 451}
                  /\ Code(last'.status) \in {550, 451} => new' = StoreAtCall(c)
                  /\ Code(last'.status) = 250 =>
                        \E f \in new' : /\ f \notin StoreAtCall(c)
                                        /\ new' = StoreAtCall(c) \cup {f}
      ]_vars

\* A data check was rejected by the header check while the store already held
\* a record that an accepted data check had added.
C1_Witness ==
    /\ last.op = "DATA" /\ Code(last.status) = 550
    /\ last.status[1].text = "Message rejected"
    /\ new # {}

\* The order in which handle_DATA runs its parts.
CheckOrder ==
    <<"sender_domain", "spf", "check2", "parse", "required_headers", "stamp", "add">>

Position(name) == CHOOSE i \in 1..Len(CheckOrder) : CheckOrder[i] = name

InOrder(trace) ==
    /\ \A i \in 1..Len(trace) : \E j \in 1..Len(CheckOrder) : CheckOrder[j] = trace[i]
    /\ \A i \in 1..(Len(trace) - 1) : Position(trace[i]) < Position(trace[i + 1])

Ran(trace, name) == \E i \in 1..Len(trace) : trace[i] = name

\* C2: a data check runs sender-domain, authenticity, header-match in that
\* order and stops at the first rejection: the status is that of the last
\* check that ran, the checks before it passed, the verifier is not invoked
\* when the sender-domain check rejects, and nothing is parsed or
\* header-checked when the sender-domain or the authenticity check rejects.
C2_ChecksInOrderShortCircuit ==
    [][ \A c \in Conns :
            DataEnds(c) =>
                LET trace == last'.trace
                    status == last'.status
                    e1 == validate_sender_domain(cfg, envelope[c])
                IN  /\ InOrder(trace)
                    /\ trace[1] = "sender_domain"
                    /\ e1 # None =>
                          status = e1 /\ trace = <<"sender_domain">>
                    /\ e1 = None =>
                          /\ Len(trace) >= 2 /\ trace[2] = "spf"
                          /\ Ran(trace, "check2") <=> cfg.require_spf_pass
                    /\ (e1 = None /\ loop = c /\ pc[c] # "spf_call") =>
                          /\ validate_spf(cfg, frame.outcome) = None
                          /\ Ran(trace, "parse") /\ Ran(trace, "required_headers")
                          /\ validate_required_headers(cfg, frame.parsed[1]) = None
                          /\ trace[Len(trace)] = "add"
                    /\ (status # None /\ status[1].text \in
                            {"SPF validation error", "SPF validation failed: "}) =>
                          /\ trace = <<"sender_domain", "spf", "check2">>
                          /\ loop = c /\ pc[c] = "spf_call"
                    /\ (status # None /\ status[1].text = "Message rejected") =>
                          trace[Len(trace)] = "required_headers"
                    /\ (last'.raised \/ Code(status) = 250) =>
                          trace[Len(trace)] = "add"
      ]_vars

\* The verifier rejected a message whose sender domain passed: the data
\* check ended there, before parsing.
C2_Witness ==
    /\ last.op = "DATA" /\ Code(last.status) = 550
    /\ last.status[1].text = "SPF validation failed: "
    /\ last.trace = <<"sender_domain", "spf", "check2">>

\* C4: when the store write fails with a filesystem error, the data check
\* returns 451 (the error does not leave handle_DATA) and no record of the
\* message appears in new/.
C4_WriteFailureReturns451 ==
    [][ faults' # faults =>
            /\ ~last'.raised
            /\ Code(last'.status) = 451
            /\ new' = new
      ]_vars

\* A stored file is a complete message: it reads back as the headers and
\* body that were written, the last three headers being the provenance ones.
Complete(data) ==
    LET m == message_from_bytes(data)
        n == Len(m.headers)
    IN  /\ as_bytes(m) = data
        /\ n >= 3
        /\ m.headers[n - 2][1] = <<"X-Backup-Received">>
        /\ m.headers[n - 1][1] = <<"X-Backup-From">>
        /\ m.headers[n][1] = <<"X-Backup-To">>

C6_VerifierCallYieldsLoop ==
    \A c, d \in Conns :
        (alive /\ c # d /\ pc[c] = "spf_call" /\ pc[d] = "rcpt") =>
            /\ Len(envelope[d].rcpt_tos) < MaxRcpts =>
                  ENABLED (\E address \in Addresses : RCPT(d, address))
            /\ count < MaxAdds =>
                  ENABLED (\E content \in Contents : DATA(d, content))

\* Equality of two texts ignoring case.
SameIgnoringCase(a, b) ==
    /\ Len(a) = Len(b)
    /\ \A i \in 1..Len(a) : LowerPiece(a[i]) = LowerPiece(b[i])

\* C3: the authenticity check over every verifier outcome.  With the flag off
\* it passes and the verifier is not called; with it on, `pass` and `none`
\* pass, every other result gives 550, a verifier that raises gives 451.
C3_AuthenticityMapping ==
    probe.fn = "spf" =>
        LET outcome == probe.arg[1]
        IN  IF ~args.require_spf_pass
            THEN probe.out = None /\ ~probe.called
            ELSE /\ probe.called
                 /\ outcome \in {"pass", "none"} => probe.out = None
                 /\ outcome \in {"fail", "softfail", "neutral", "permerror", "temperror"}
                        => Code(probe.out) = 550
                 /\ outcome = Raises => Code(probe.out) = 451

\* The flag is on and the verifier returned `none`: the check passed.
C3_Witness ==
    /\ probe.fn = "spf" /\ args.require_spf_pass
    /\ probe.arg = <<"none">> /\ probe.called /\ probe.out = None

\* An allowed recipient is configured: the argument is a text that is not empty.
RecipientConfigured == args.allowed_recipient \notin {None, Some(<<>>)}

\* C7: with an allowed recipient configured an offered address gets 250 if
\* and only if it equals the allowed recipient ignoring case, and 550
\* otherwise; with none configured every offered address gets 250.
C7_RecipientCheck ==
    \A i \in 1..Len(offers) :
        LET o == offers[i]
        IN  IF RecipientConfigured
            THEN /\ o.status.code = 250
                    <=> SameIgnoringCase(o.address, args.allowed_recipient[1])
                 /\ o.status.code \in {250, 550}
            ELSE o.status.code = 250

\* With B@x allowed, a@x was rejected and then B@X accepted.
C7_Witness ==
    /\ args.allowed_recipient = Some(<<"B", "@", "x">>)
    /\ Len(offers) >= 2
    /\ offers[1].address = <<"a", "@", "x">> /\ offers[1].status.code = 550
    /\ offers[2].address = <<"B", "@", "X">> /\ offers[2].status.code = 250

\* The addresses of the accepted offers, in the order offered.
RECURSIVE AcceptedAddresses(_)
AcceptedAddresses(os) ==
    IF os = <<>> THEN <<>>
    ELSE IF Head(os).status.code = 250
    THEN <<Head(os).address>> \o AcceptedAddresses(Tail(os))
    ELSE AcceptedAddresses(Tail(os))

\* C8: recipient checks change the envelope only by appending each accepted
\* address, as offered, to the recipient list: after any sequence of them the
\* sender and content are what they were and the list is the accepted
\* addresses in offer order, duplicates kept.
C8_RecipientCheckFrame ==
    IF pc["c1"] = "rcpt"
    THEN envelope["c1"] = Envelope(PolicySender, AcceptedAddresses(offers), None)
    ELSE envelope["c1"] = NoEnvelope /\ offers = <<>>

\* An address accepted, another rejected, the first accepted again in
\* another case: the list holds the two accepted ones as offered.
C8_Witness ==
    /\ Len(offers) = 3
    /\ offers[1].status.code = 250
    /\ offers[2].status.code = 550
    /\ offers[3].status.code = 250
    /\ offers[1].address # offers[3].address
    /\ envelope["c1"].rcpt_tos = <<offers[1].address, offers[3].address>>

\* d is what follows the last "@" of s.
AfterLastAt(s, d) ==
    \E i \in 1..Len(s) :
        /\ s[i] = "@"
        /\ \A j \in (i + 1)..Len(s) : s[j] # "@"
        /\ d = SubSeq(s, i + 1, Len(s))

\* C9: with no allow-list, or an empty one, every sender passes; otherwise a
\* sender passes if and only if what follows its last "@" equals, ignoring
\* case, a domain of the list, and is otherwise rejected with the 550 status.
C9_SenderDomainCheck ==
    probe.fn = "sender_domain" =>
        LET sender == probe.arg
            list == args.allowed_sender_domains
        IN  IF list \in {None, Some(<<>>)}
            THEN probe.out = None
            ELSE /\ Contains(sender, "@") =>
                       (probe.out = None <=>
                            \E k \in 1..Len(list[1]) :
                                \E d \in {SubSeq(sender, i, Len(sender)) :
                                              i \in 1..(Len(sender) + 1)} :
                                    /\ AfterLastAt(sender, d)
                                    /\ SameIgnoringCase(list[1][k], d))
                 /\ probe.out # None =>
                       probe.out = Some(Status(550, "Sender domain not authorized"))

\* A sender with two "@" passed on the domain after the last one.
C9_Witness ==
    /\ probe.fn = "sender_domain"
    /\ probe.arg = <<"j", "@", "z", "@", "h">>
    /\ args.allowed_sender_domains = Some(<< <<"H">> >>)
    /\ probe.out = None

\* The value of the first header named `name` ignoring case, "" with none.
FirstValue(headers, name) ==
    LET hits == {i \in 1..Len(headers) : SameIgnoringCase(headers[i][1], name)}
    IN  IF hits = {} THEN <<>>
        ELSE headers[CHOOSE i \in hits : \A j \in hits : i <= j][2]

\* C10: with no required headers every message passes; otherwise a message
\* passes if and only if for every required (name, expected) the first header
\* of that name, "" when absent, equals expected ignoring case; every failure
\* is the one status "550 Message rejected".
C10_HeaderCheck ==
    probe.fn = "required_headers" =>
        LET headers == message_from_bytes(probe.arg).headers
            required == cfg.required_headers
        IN  IF DOMAIN required = {}
            THEN probe.out = None
            ELSE /\ probe.out = None <=>
                       \A name \in DOMAIN required :
                           SameIgnoringCase(FirstValue(headers, name), required[name])
                 /\ probe.out # None =>
                       probe.out = Some(Status(550, "Message rejected"))

\* A message whose first X header mismatches and whose second one matches is
\* rejected.
C10_Witness ==
    /\ probe.fn = "required_headers"
    /\ DOMAIN cfg.required_headers = {<<"x">>}
    /\ cfg.required_headers[<<"x">>] = <<"t">>
    /\ probe.arg[1] = <<"X", ":", " ", "b", CRLF>>
    /\ probe.arg[2] = <<"X", ":", " ", "t", CRLF>>
    /\ Code(probe.out) = 550

\* The required-header entries the handler was constructed with.
Entries == IF args.required_headers = None THEN <<>> ELSE args.required_headers[1]

ColonsOf(e) == {i \in 1..Len(e) : e[i] = ":"}

FirstColon(e) == CHOOSE i \in ColonsOf(e) : \A j \in ColonsOf(e) : i <= j

\* The name and the value of an entry that holds a colon: what stands before
\* and after its first colon, blanks trimmed, in lower case.
NameOf(e) == Lower(Strip(SubSeq(e, 1, FirstColon(e) - 1)))
ValueOf(e) == Lower(Strip(SubSeq(e, FirstColon(e) + 1, Len(e))))

\* The entries that count: those with a colon that no later entry of the
\* same name replaces.
Kept ==
    {k \in 1..Len(Entries) :
        /\ ColonsOf(Entries[k]) # {}
        /\ \A l \in (k + 1)..Len(Entries) :
               ColonsOf(Entries[l]) # {} => NameOf(Entries[l]) # NameOf(Entries[k])}

\* C11: the required-headers map holds exactly the entries with a colon,
\* each split on its first colon into name and value (the value keeps any
\* further colon); an entry with no colon is not in the map, and the header
\* check decides as if it had not been given.
C11_MapBuiltOnFirstColon ==
    /\ DOMAIN cfg.required_headers = {NameOf(Entries[k]) : k \in Kept}
    /\ \A k \in Kept : cfg.required_headers[NameOf(Entries[k])] = ValueOf(Entries[k])
    /\ probe.fn = "required_headers" =>
           (probe.out = None <=>
               \A k \in Kept :
                   SameIgnoringCase(
                       FirstValue(message_from_bytes(probe.arg).headers,
                                  NameOf(Entries[k])),
                       ValueOf(Entries[k])))

\* Of the entries "X" and "A:t:b" only a -> t:b is in the map, and a message
\* whose X header has some value passes the header check.
C11_Witness ==
    /\ args.required_headers = Some(<< <<"X">>, <<"A", ":", "t", ":", "b">> >>)
    /\ DOMAIN cfg.required_headers = {<<"a">>}
    /\ cfg.required_headers[<<"a">>] = <<"t", ":", "b">>
    /\ probe.fn = "required_headers"
    /\ probe.arg[1] = <<"X", ":", " ", "b", CRLF>>
    /\ probe.out = None

\* C12: the record an accepted data check stores, parsed back, has the
\* headers of the original message, unchanged and in order, then exactly the
\* three provenance headers (the receipt time, the envelope sender, the
\* accepted recipients joined with ", " in acceptance order), and the body of
\* the original message unchanged.
C12_StoredRecordRoundTrip ==
    [][ \A c \in Conns :
            (DataEnds(c) /\ ~last'.raised /\ Code(last'.status) = 250) =>
                \E f \in new' \ new :
                    LET original == message_from_bytes(envelope[c].content[1])
                        back == message_from_bytes(f.data)
                        n == Len(original.headers)
                    IN  /\ Len(back.headers) = n + 3
                        /\ SubSeq(back.headers, 1, n) = original.headers
                        /\ back.headers[n + 1][1] = <<"X-Backup-Received">>
                        /\ back.headers[n + 2]
                              = << <<"X-Backup-From">>, envelope[c].mail_from >>
                        /\ back.headers[n + 3]
                              = << <<"X-Backup-To">>,
                                   Join(<<",", " ">>, envelope[c].rcpt_tos) >>
                        /\ back.body = original.body
      ]_vars

\* f is a record of the message of envelope env: its headers are those of
\* the message followed by the provenance headers of env, its body the
\* message's lines.
IsRecordOf(f, env) ==
    LET original == message_from_bytes(env.content[1])
        back == message_from_bytes(f.data)
        n == Len(original.headers)
    IN  /\ Len(back.headers) = n + 3
        /\ SubSeq(back.headers, 1, n) = original.headers
        /\ back.headers[n + 2][2] = env.mail_from
        /\ back.headers[n + 3][2] = Join(<<",", " ">>, env.rcpt_tos)
        /\ back.body = [i \in 1..Len(original.body) |-> WithLinesep(original.body[i])]

Times(trace, name) == Cardinality({i \in 1..Len(trace) : trace[i] = name})

\* C13: a data check on which the verifier raises returns 451 at once, the
\* verifier called once and the store as it was; when the same message is
\* then submitted again and the verifier returns `pass`, the data check (of a
\* message that meets the required headers, written without a filesystem
\* error) returns 250 and the store is the store of the failed attempt plus
\* exactly one record, a record of that message.
C13_VerifierRaiseThenRetry ==
    [][ \A c \in Conns :
            /\ SpfReturnCall(c, Raises) =>
                  /\ DataEnds(c) /\ ~last'.raised
                  /\ Code(last'.status) = 451
                  /\ Times(last'.trace, "check2") = 1
                  /\ new' = new /\ tmp' = tmp /\ adds' = adds
            /\ ( /\ DataEnds(c) /\ ~last'.raised
                 /\ attempt # None
                 /\ envelope[c] = attempt[1].envelope
                 /\ StoreAtCall(c) = attempt[1].new
                 /\ Ran(last'.trace, "add")
                 /\ frame.outcome = "pass" ) =>
                  /\ Code(last'.status) = 250
                  /\ Times(last'.trace, "check2") = 1
                  /\ \E f \in new' :
                        /\ IsRecordOf(f, envelope[c])
                        /\ f \notin attempt[1].new
                        /\ new' = attempt[1].new \cup {f}
      ]_vars

\* The verifier raised on a message while the store held a record of another
\* one; the message was submitted again and stored: the store holds the old
\* record and one record of the message.
C13_Witness ==
    /\ attempt # None
    /\ attempt[1].new # {}
    /\ \A g \in attempt[1].new : ~IsRecordOf(g, attempt[1].envelope)
    /\ last.op = "DATA" /\ Code(last.status) = 250
    /\ Cardinality(new) = Cardinality(attempt[1].new) + 1
    /\ \E f \in new \ attempt[1].new :
          /\ IsRecordOf(f, attempt[1].envelope)
          /\ new = attempt[1].new \cup {f}

\* C14: a check returns 451 only when the verifier raised (a failed store
\* write being the one other ground the claim allows); every policy mismatch
\* returns 550: a recipient that is not the allowed one, a sender domain
\* that is not listed, a result of the verifier other than `pass` and
\* `none`, a required header that does not match.
C14_FailureClassification ==
    /\ \A i \in 1..Len(offers) : offers[i].status.code \in {250, 550}
    /\ probe.out # None =>
          /\ Code(probe.out) \in {550, 451}
          /\ Code(probe.out) = 451 =>
                probe.fn = "spf" /\ probe.called /\ probe.arg = <<Raises>>
    /\ (probe.fn = "spf" /\ probe.called /\ probe.arg[1] \in SpfResults) =>
          IF probe.arg[1] \in {"pass", "none"}
          THEN probe.out = None
          ELSE Code(probe.out) = 550
    /\ (probe.fn \in {"sender_domain", "required_headers"} /\ probe.out # None) =>
          Code(probe.out) = 550

\* The verifier returned `temperror`: the check answered 550.
C14_Witness ==
    /\ probe.fn = "spf" /\ probe.called
    /\ probe.arg = <<"temperror">>
    /\ Code(probe.out) = 550

\* C15: in an accepted data check the Message parsed from the envelope's
\* bytes is not changed by the stamping: when the call returns its 250 the
\* Message the header check inspected has the header list it was parsed
\* with, and no step of a data check changes the envelope's sender,
\* recipient list or bytes.
C15_ParsedMessageNotMutated ==
    [][ \A c \in Conns :
            /\ (DataEnds(c) /\ ~last'.raised /\ Code(last'.status) = 250) =>
                  /\ frame.parsed[1] = message_from_bytes(envelope[c].content[1])
                  /\ frame.msg[1].headers = frame.parsed[1].headers
            /\ (loop = c /\ pc'[c] # "closed") => envelope'[c] = envelope[c]
            /\ (pc[c] = "rcpt" /\ pc'[c] \notin {"rcpt", "closed"}) =>
                  /\ envelope'[c].mail_from = envelope[c].mail_from
                  /\ envelope'[c].rcpt_tos = envelope[c].rcpt_tos
      ]_vars

\* The addresses of a provenance value: value.split(", ").
RECURSIVE SplitCommaSpace(_)
SplitCommaSpace(value) ==
    LET commas == {i \in 1..(Len(value) - 1) : value[i] = "," /\ value[i + 1] = " "}
    IN  IF commas = {} THEN <<value>>
        ELSE LET i == CHOOSE j \in commas : \A k \in commas : j <= k
             IN  <<SubSeq(value, 1, i - 1)>>
                     \o SplitCommaSpace(SubSeq(value, i + 2, Len(value)))

\* The accepted-recipients provenance header of a stored file: its last header.
BackupTo(f) ==
    LET headers == message_from_bytes(f.data).headers
    IN  headers[Len(headers)]

\* C16: with an allowed recipient configured, every address in the
\* accepted-recipients provenance header of every stored record equals the
\* allowed recipient ignoring case.
C16_StoredRecipientsAreAllowed ==
    RecipientConfigured =>
        \A f \in new :
            /\ BackupTo(f)[1] = <<"X-Backup-To">>
            /\ LET addresses == SplitCommaSpace(BackupTo(f)[2])
               IN  \A i \in 1..Len(addresses) :
                       SameIgnoringCase(addresses[i], args.allowed_recipient[1])

\* A record is stored whose recipient is the allowed one in another case,
\* in runs where another address was offered and rejected.
C16_Witness ==
    /\ args.allowed_recipient = Some(<<"b", "@", "x">>)
    /\ \E f \in new : BackupTo(f) = << <<"X-Backup-To">>, <<"B", "@", "x">> >>

\* The allow-list the handler was constructed with.
DomainList ==
    IF args.allowed_sender_domains = None THEN <<>> ELSE args.allowed_sender_domains[1]

\* The whole of sender is, ignoring case, a domain of the allow-list.
WholeListed(sender) ==
    \E k \in 1..Len(DomainList) : SameIgnoringCase(DomainList[k], sender)

\* C17 as claimed: a sender with no "@" passes the sender-domain check of a
\* non-empty allow-list exactly when the whole of it is a listed domain, a
\* rejection is the 550 status, and the empty sender is rejected with 550
\* whenever the allow-list is not empty.
C17_SenderWithoutAt_AsClaimed ==
    (probe.fn = "sender_domain" /\ ~Contains(probe.arg, "@") /\ DomainList # <<>>) =>
        /\ probe.out = None <=> WholeListed(probe.arg)
        /\ probe.out # None =>
              probe.out = Some(Status(550, "Sender domain not authorized"))
        /\ probe.arg = <<>> => Code(probe.out) = 550

\* C17 amended: a sender with no "@" passes the sender-domain check of a
\* non-empty allow-list exactly when the whole of it is a listed domain, a
\* rejection is the 550 status, and the empty sender is rejected with 550
\* whenever the allow-list is not empty and does not list the empty string.
C17_SenderWithoutAt ==
    (probe.fn = "sender_domain" /\ ~Contains(probe.arg, "@") /\ DomainList # <<>>) =>
        /\ probe.out = None <=> WholeListed(probe.arg)
        /\ probe.out # None =>
              probe.out = Some(Status(550, "Sender domain not authorized"))
        /\ (probe.arg = <<>> /\ \A k \in 1..Len(DomainList) : DomainList[k] # <<>>) =>
              Code(probe.out) = 550

\* The sender "h", which holds no "@", passed against the allow-list ["H"].
C17_Witness ==
    /\ probe.fn = "sender_domain"
    /\ probe.arg = <<"h">>
    /\ args.allowed_sender_domains = Some(<< <<"H">> >>)
    /\ probe.out = None

\* The message has no header of that name.
Lacks(headers, name) ==
    \A i \in 1..Len(headers) : ~SameIgnoringCase(headers[i][1], name)

\* C18: an entry whose value part is empty is kept in the map, with the
\* empty value, and is satisfied by a message that lacks the header as well
\* as by one whose first header of that name has an empty value: a message
\* that so satisfies the empty-valued entries, and matches the others,
\* passes the header check.
C18_EmptyValueEntry ==
    /\ \A k \in Kept :
          ValueOf(Entries[k]) = <<>> =>
              /\ NameOf(Entries[k]) \in DOMAIN cfg.required_headers
              /\ cfg.required_headers[NameOf(Entries[k])] = <<>>
    /\ probe.fn = "required_headers" =>
          LET headers == message_from_bytes(probe.arg).headers
              Satisfied(k) ==
                  IF ValueOf(Entries[k]) = <<>>
                  THEN \/ Lacks(headers, NameOf(Entries[k]))
                       \/ FirstValue(headers, NameOf(Entries[k])) = <<>>
                  ELSE SameIgnoringCase(FirstValue(headers, NameOf(Entries[k])),
                                        ValueOf(Entries[k]))
          IN  (\A k \in Kept : Satisfied(k)) => probe.out = None

\* With the one entry "X:" a message that has no X header passed.
C18_Witness ==
    /\ args.required_headers = Some(<< <<"X", ":">> >>)
    /\ DOMAIN cfg.required_headers = {<<"x">>}
    /\ cfg.required_headers[<<"x">>] = <<>>
    /\ probe.fn = "required_headers"
    /\ Lacks(message_from_bytes(probe.arg).headers, <<"x">>)
    /\ message_from_bytes(probe.arg).headers # <<>>
    /\ probe.out = None

=============================================================================
